---------------------------- MODULE Spec2Model ----------------------------
(***************************************************************************)
(* Probabilistic Diffusion Inference (PDI): the parent inference engine    *)
(* get_who_rtd_whom, the power-law time-decay model power_law, the cascade *)
(* reconstruction driver entire_cascade_reconstruction and the version     *)
(* loop of the reconstruction scripts.                                     *)
(*                                                                         *)
(* Numbers.  The code computes in IEEE doubles.  The model computes the    *)
(* exact rational value every double stands for, and keeps NaN (0/0) as a  *)
(* value of its own that absorbs every operation, as in numpy.  Rationals  *)
(* exceed TLC's 32-bit integers, so naturals are little-endian sequences   *)
(* of limbs (Big operators).  A probability vector is numerators over     *)
(* one common denominator.  alpha is taken from the integers > 1, for      *)
(* which the integral power_law computes is rational; gamma from the       *)
(* multiples of 1/GammaSteps in [0,1].                                     *)
(***************************************************************************)
EXTENDS Integers, Sequences, FiniteSets, TLC

\* ------------------------------------------------------------------------
\* Bounds of the model
\* ------------------------------------------------------------------------
MaxLen == 3          \* longest cascade handed to the driver (root included)
MaxTstamp == 1       \* a cascade's timestamps are 0..MaxTstamp (seconds)
MaxCand == 2         \* most candidates in a direct call of the engine
MaxCurr == 2         \* a direct call's timestamps are 0..MaxCurr (seconds)

\* ------------------------------------------------------------------------
\* Program constants
\* ------------------------------------------------------------------------
N_SIMULATIONS == 100     \* versions per cascade
XMIN == 1                \* the xmin the scripts pass
EpsilonInv == 10000      \* power_law: epsilon = 0.0001 = 1/EpsilonInv
OffsetInv == 10          \* get_who_rtd_whom: tdiff + 0.1, 0.1 = 1/OffsetInv
GammaSteps == 4          \* gamma = g/GammaSteps; GAMMA_VALUES are g = 1, 2, 3

\* GAMMA_VALUES = [0.25, 0.5, 0.75], as numerators over GammaSteps
GAMMA_VALUES == {1, 2, 3}
\* the integer members of ALPHA_VALUES = [1.1, 1.5, 2.0, 2.5, 3.0]
ALPHA_VALUES == {2, 3}

\* ------------------------------------------------------------------------
\* Input values the model draws from
\* ------------------------------------------------------------------------
Gammas == 0..GammaSteps          \* gamma in [0, 1], both ends included
Xmins == {XMIN, 2}               \* xmin > 0
FcountValues == {0, 1, 3}        \* follower counts of a direct call
CascadeFcounts == {0, 1}         \* follower counts of a cascade's events
Authors == {1, 2}                \* Bluesky author ids (dids)

\* ------------------------------------------------------------------------
\* Exact naturals: little-endian limbs in 0..Base-1, no leading zero limb,
\* <<>> is zero.
\* ------------------------------------------------------------------------
Base == 100 * 100

RECURSIVE BigOf(_)
BigOf(n) == IF n = 0 THEN <<>> ELSE <<n % Base>> \o BigOf(n \div Base)

RECURSIVE BigAddC(_, _, _)
BigAddC(a, b, c) ==
    IF a = <<>> /\ b = <<>>
    THEN (IF c = 0 THEN <<>> ELSE <<c>>)
    ELSE LET x == (IF a = <<>> THEN 0 ELSE Head(a))
                  + (IF b = <<>> THEN 0 ELSE Head(b)) + c
         IN  <<x % Base>> \o BigAddC(IF a = <<>> THEN <<>> ELSE Tail(a),
                                     IF b = <<>> THEN <<>> ELSE Tail(b),
                                     x \div Base)

BigAdd(a, b) == BigAddC(a, b, 0)

RECURSIVE BigTrim(_)
BigTrim(a) ==
    IF a = <<>> THEN <<>>
    ELSE IF a[Len(a)] = 0 THEN BigTrim(SubSeq(a, 1, Len(a) - 1)) ELSE a

\* a - b for a >= b; w is the borrow
RECURSIVE BigSubC(_, _, _)
BigSubC(a, b, w) ==
    IF a = <<>> THEN <<>>
    ELSE LET x == Head(a) - (IF b = <<>> THEN 0 ELSE Head(b)) - w
         IN  <<IF x < 0 THEN x + Base ELSE x>>
             \o BigSubC(Tail(a), IF b = <<>> THEN <<>> ELSE Tail(b),
                        IF x < 0 THEN 1 ELSE 0)

BigSub(a, b) == BigTrim(BigSubC(a, b, 0))

\* a * k + c for a limb k
RECURSIVE BigScaleC(_, _, _)
BigScaleC(a, k, c) ==
    IF a = <<>> THEN BigOf(c)
    ELSE LET x == Head(a) * k + c
         IN  <<x % Base>> \o BigScaleC(Tail(a), k, x \div Base)

BigScale(a, k) == IF k = 0 THEN <<>> ELSE BigScaleC(a, k, 0)

BigShift(a) == IF a = <<>> THEN <<>> ELSE <<0>> \o a

RECURSIVE BigMul(_, _)
BigMul(a, b) ==
    IF a = <<>> \/ b = <<>> THEN <<>>
    ELSE BigAdd(BigScale(b, Head(a)), BigShift(BigMul(Tail(a), b)))

RECURSIVE BigPow(_, _)
BigPow(a, n) == IF n = 0 THEN <<1>> ELSE BigMul(a, BigPow(a, n - 1))

\* a < b, comparing from the most significant limb
RECURSIVE BigLessFrom(_, _, _)
BigLessFrom(a, b, i) ==
    IF i = 0 THEN FALSE
    ELSE IF a[i] # b[i] THEN a[i] < b[i]
    ELSE BigLessFrom(a, b, i - 1)

BigLess(a, b) ==
    IF Len(a) # Len(b) THEN Len(a) < Len(b) ELSE BigLessFrom(a, b, Len(a))

RECURSIVE BigSumSeq(_)
BigSumSeq(s) == IF s = <<>> THEN <<>> ELSE BigAdd(Head(s), BigSumSeq(Tail(s)))

\* the product of the entries of s, the i-th left out (i = 0: none)
RECURSIVE BigProdBut(_, _)
BigProdBut(s, i) ==
    IF s = <<>> THEN <<1>>
    ELSE IF i = 1 THEN BigProdBut(Tail(s), 0)
    ELSE BigMul(Head(s), BigProdBut(Tail(s), IF i = 0 THEN 0 ELSE i - 1))

\* ------------------------------------------------------------------------
\* Probability vectors: [nan, nums, den].  Entry i is nums[i]/den; nan marks
\* a vector whose entries are all NaN.
\* ------------------------------------------------------------------------
NaNVec(n) == [nan |-> TRUE, nums |-> [i \in 1..n |-> <<>>], den |-> <<>>]

\* c * v for the rational c = cnum/cden
VecScale(cnum, cden, v) ==
    IF v.nan THEN v
    ELSE [nan |-> FALSE,
          nums |-> [i \in DOMAIN v.nums |-> BigScale(v.nums[i], cnum)],
          den |-> BigScale(v.den, cden)]

\* v + w, entry by entry
VecAdd(v, w) ==
    IF v.nan \/ w.nan THEN NaNVec(Len(v.nums))
    ELSE [nan |-> FALSE,
          nums |-> [i \in DOMAIN v.nums |->
                      BigAdd(BigMul(v.nums[i], w.den), BigMul(w.nums[i], v.den))],
          den |-> BigMul(v.den, w.den)]

\* v / v.sum(): (n_i/d) / (sum n / d) = n_i / sum n; 0/0 is NaN
VecNormalize(v) ==
    LET total == BigSumSeq(v.nums)
    IN  IF v.nan \/ total = <<>> THEN NaNVec(Len(v.nums))
        ELSE [nan |-> FALSE, nums |-> v.nums, den |-> total]

\* entry i of v < entry j of v (false on NaN, as every comparison with NaN):
\* one denominator, so the numerators decide
Less(v, i, j) == ~v.nan /\ BigLess(v.nums[i], v.nums[j])

\* v and w are the same vector of numbers
VecEq(v, w) ==
    /\ ~v.nan /\ ~w.nan
    /\ Len(v.nums) = Len(w.nums)
    /\ \A i \in DOMAIN v.nums :
          BigMul(v.nums[i], w.den) = BigMul(w.nums[i], v.den)

\* the entries of v sum to 1
SumsToOne(v) == ~v.nan /\ BigSumSeq(v.nums) = v.den

RECURSIVE SumInts(_)
SumInts(s) == IF s = <<>> THEN 0 ELSE Head(s) + SumInts(Tail(s))

\* ------------------------------------------------------------------------
\* power_law(z, alpha, xmin): the integral over [z - epsilon, z + epsilon] of
\*     ((alpha - 1) / xmin) * ((xmin / x) ** alpha)
\* With Z = z * EpsilonInv and E = EpsilonInv the window is [(Z-1)/E, (Z+1)/E]
\* and the integral is
\*     xmin^(alpha-1) * ( ((Z-1)/E)^(1-alpha) - ((Z+1)/E)^(1-alpha) )
\*   = (xmin*E)^(alpha-1) * ((Z+1)^(alpha-1) - (Z-1)^(alpha-1))
\*     / ((Z-1)*(Z+1))^(alpha-1)
\* returned as [num, den].  Defined here for Z > 1 (z > epsilon) and, for an
\* even alpha, for Z < -1: (xmin / x) ** alpha is then the same at x and -x,
\* so the integral over the negative window [z - epsilon, z + epsilon] is
\* the integral over [-z - epsilon, -z + epsilon].
\* ------------------------------------------------------------------------
power_law(Z, alpha_, xmin_) ==
    LET A == IF Z < 0 THEN -Z ELSE Z
        lo == BigPow(BigOf(A - 1), alpha_ - 1)
        hi == BigPow(BigOf(A + 1), alpha_ - 1)
    IN  [num |-> BigMul(BigPow(BigOf(xmin_ * EpsilonInv), alpha_ - 1),
                        BigSub(hi, lo)),
         den |-> BigMul(lo, hi)]

\* tdiff + 0.1, in units of epsilon
ZOf(tdiff) == tdiff * EpsilonInv + EpsilonInv \div OffsetInv

\* ------------------------------------------------------------------------
\* get_who_rtd_whom, line by line
\* ------------------------------------------------------------------------
\* fcount_probabilities = poten_edge_fcounts / sum(poten_edge_fcounts)
FcountProbabilities(fcounts) ==
    LET total_fcounts == SumInts(fcounts)
    IN  IF total_fcounts = 0 THEN NaNVec(Len(fcounts))
        ELSE [nan |-> FALSE,
              nums |-> [i \in DOMAIN fcounts |-> BigOf(fcounts[i])],
              den |-> BigOf(total_fcounts)]

\* a faulty variant, for comparison: the time since the root's post instead of the time to the resharer
TimeDiffsFromRoot(tstamps, curr) == [i \in DOMAIN tstamps |-> tstamps[i] - tstamps[1]]

\* time_diffs = curr_tstamp - poten_edge_tstamps
TimeDiffs(tstamps, curr) == [i \in DOMAIN tstamps |-> curr - tstamps[i]]

\* tdiff_probs = [power_law(tdiff + 0.1, alpha, xmin)[0] for tdiff in time_diffs]
TdiffProbs(time_diffs, alpha_, xmin_) ==
    LET pl == [i \in DOMAIN time_diffs |->
                   power_law(ZOf(time_diffs[i]), alpha_, xmin_)]
        dens == [i \in DOMAIN pl |-> pl[i].den]
    IN  [nan |-> FALSE,
         nums |-> [i \in DOMAIN pl |-> BigMul(pl[i].num, BigProdBut(dens, i))],
         den |-> BigProdBut(dens, 0)]

\* norm_tstamp_prob_array = tdiff_probs / tdiff_probs.sum()
NormTstampProbArray(tdiff_probs) == VecNormalize(tdiff_probs)

\* weighted_fcount = gamma * fcount_probabilities
WeightedFcount(g, fcount_probabilities) ==
    VecScale(g, GammaSteps, fcount_probabilities)

\* weighted_tstamp = (1 - gamma) * norm_tstamp_prob_array
WeightedTstamp(g, norm_tstamp_prob_array) ==
    VecScale(GammaSteps - g, GammaSteps, norm_tstamp_prob_array)

\* indiv_probs = weighted_fcount + weighted_tstamp
IndivProbs(g, fcount_probabilities, norm_tstamp_prob_array) ==
    VecAdd(WeightedFcount(g, fcount_probabilities),
           WeightedTstamp(g, norm_tstamp_prob_array))

\* np.random.choice(a, p=p) raises ValueError unless p is free of NaN,
\* non-negative and sums to 1
ChoiceRaises(p) == p.nan \/ ~SumsToOne(p)

\* a faulty variant, for comparison: the most probable positions only (argmax)
ChoiceArgmax(p) ==
    IF ChoiceRaises(p) THEN {}
    ELSE {i \in DOMAIN p.nums : \A j \in DOMAIN p.nums : ~Less(p, i, j)}

\* the positions np.random.choice(a, p=p) can return: it inverts the
\* cumulative sum of p at a uniform draw from [0, 1), so exactly the
\* positions of positive probability
ChoiceSupport(p) ==
    IF ChoiceRaises(p) THEN {} ELSE {i \in DOMAIN p.nums : p.nums[i] # <<>>}

\* ------------------------------------------------------------------------
\* State
\* ------------------------------------------------------------------------
VARIABLES
    script,              \* the script that built the lists: "vosoughi"
                         \* (reconstruct_all_cascades), "bluesky", "random"
                         \* (reconstruct_random_cascades), "none" (direct call)
    poten_edge_users,    \* the driver's arguments
    poten_edge_tstamps,
    poten_edge_fcounts,
    gamma,               \* numerator over GammaSteps
    alpha,
    xmin,
    pc,                  \* the driver: "idle", "start", "loop", "done", "raised"
    idx,                 \* the driver's loop index (0-based, as in the code)
    edge_list,           \* the driver's edge list, <<parent, child>> pairs
    call,                \* the latest call of get_who_rtd_whom
    n_calls,             \* calls of get_who_rtd_whom made by the running driver
    n_draws,             \* random draws made by the running driver
    spc,                 \* the script's version loop: "off", "main",
                         \* "running", "saved", "crashed"
    num_cascade_versions,
    n_launched,          \* driver runs started for the cascade
    n_returned,          \* edge lists the driver runs returned
    data,                \* the loaded rows, one frame per cascade
    n_procs,             \* N_PROCS, the worker processes of Parallel
    runs,                \* runs of the script started so far
    combo,               \* position in the (gamma, alpha) loops
    cas_num,             \* position in the cascade loop
    cascade_frame,       \* the current cascade's rows after sort_values
    workers,             \* worker process -> the task it runs (0: idle)
    rng_tasks,           \* worker process -> tasks that drew from its
                         \* np.random generator, counted up to 2
    driver_outcomes,     \* what a run of the driver on the current lists
                         \* can end with
    edge_lists,          \* the results of Parallel, by task
    vnum,                \* the save loop's position
    disk,                \* (combo, cascade) -> the cascade directory
    version_set,         \* the different edge lists among the collected ones
    all_uris,            \* Bluesky: the cascades the run has used
    final_uris_list,     \* Bluesky: final_uris_list.txt
    lines,               \* extract_cascade_data: the raw tweets, in file order
    sampled_cascade_ids,
    line_num,            \* lines read so far
    records,
    seen_cascades,
    tweet_id,            \* the local variable tweet_id (<<>>: not bound)
    epc,                 \* extract_cascade_data: "off", "reading",
                         \* "returned", "raised"
    cas_files,           \* 002_generate_networks: cascade directory -> the
                         \* edge lists of its files v_001, v_002, ...
    n_versions,
    cascade_numv_map,
    net_ver_files_map,
    global_net,          \* the networks generate_network returned, by version
    npc                  \* 002_generate_networks: "off", "start", "counted",
                         \* "mapped"

inputs == <<script, poten_edge_users, poten_edge_tstamps, poten_edge_fcounts,
            gamma, alpha, xmin>>
driver == <<pc, idx, edge_list, n_calls, n_draws>>
loop == <<spc, num_cascade_versions, n_launched, n_returned>>
sweep == <<data, n_procs, runs, combo, cas_num, cascade_frame, workers,
           rng_tasks, driver_outcomes, edge_lists, vnum, disk, version_set,
           all_uris, final_uris_list>>
midterm == <<lines, sampled_cascade_ids, line_num, records, seen_cascades,
             tweet_id, epc, cas_files, n_versions, cascade_numv_map,
             net_ver_files_map, global_net, npc>>
extract == <<lines, sampled_cascade_ids, line_num, records, seen_cascades,
             tweet_id, epc>>
networks == <<cas_files, n_versions, cascade_numv_map, net_ver_files_map,
              global_net, npc>>
vars == <<inputs, driver, call, loop, sweep, midterm>>

\* the lists are position-indexed from 0 in the code, from 1 here
At(s, i) == s[i + 1]
\* s[:i]
Prefix(s, i) == SubSeq(s, 1, i)

NoCall == [state |-> "none"]

\* A call of get_who_rtd_whom that has not run yet.
PendingCall(users, tstamps, fcounts, curr, g, a, x) ==
    [state |-> "pending", users |-> users, tstamps |-> tstamps,
     fcounts |-> fcounts, curr |-> curr, gamma |-> g, alpha |-> a, xmin |-> x]

\* The arrays get_who_rtd_whom computes from the arguments of c, up to the
\* draw.
Arrays(c) ==
    LET fcount_probabilities == FcountProbabilities(c.fcounts)
        tdiff_probs == TdiffProbs(TimeDiffs(c.tstamps, c.curr), c.alpha, c.xmin)
        norm_tstamp_prob_array == NormTstampProbArray(tdiff_probs)
    IN  [fcount_probabilities |-> fcount_probabilities,
         tdiff_probs |-> tdiff_probs,
         norm_tstamp_prob_array |-> norm_tstamp_prob_array,
         indiv_probs |-> IndivProbs(c.gamma, fcount_probabilities,
                                    norm_tstamp_prob_array)]

\* get_who_rtd_whom run to its end on the arguments of c with the arrays r,
\* the draw returning position k (k = 0: np.random.choice raised); outcomes
\* are the positions the draw could return.
CompletedCall(c, r, k) ==
    [state |-> IF k = 0 THEN "raised" ELSE "returned",
     users |-> c.users, tstamps |-> c.tstamps, fcounts |-> c.fcounts,
     curr |-> c.curr, gamma |-> c.gamma, alpha |-> c.alpha, xmin |-> c.xmin,
     fcount_probabilities |-> r.fcount_probabilities,
     tdiff_probs |-> r.tdiff_probs,
     norm_tstamp_prob_array |-> r.norm_tstamp_prob_array,
     indiv_probs |-> r.indiv_probs,
     outcomes |-> ChoiceSupport(r.indiv_probs),
     chosen |-> k,
     retweeted_uid |-> IF k = 0 THEN 0 ELSE c.users[k]]

\* ------------------------------------------------------------------------
\* get_who_rtd_whom called directly
\* ------------------------------------------------------------------------
GetWhoRtdWhom ==
    /\ call.state = "pending"
    /\ \E r \in {Arrays(call)} :
          IF ChoiceRaises(r.indiv_probs)
          THEN call' = CompletedCall(call, r, 0)
          ELSE \E k \in ChoiceSupport(r.indiv_probs) :
                  call' = CompletedCall(call, r, k)
    /\ UNCHANGED <<inputs, driver, loop>>
    /\ UNCHANGED sweep
    /\ UNCHANGED midterm

\* ------------------------------------------------------------------------
\* entire_cascade_reconstruction and generate_random_reconstruction
\* ------------------------------------------------------------------------
\* a faulty variant, for comparison: the first edge points from the first resharer to the root
FirstEdgeListReversed(users) == << <<At(users, 1), At(users, 0)>> >>

\* edge_list = [(poten_edge_users[0], poten_edge_users[1])]
FirstEdgeList(users) == << <<At(users, 0), At(users, 1)>> >>

\* range(2, num_retweets) starts at
FirstIdx == 2

\* num_retweets = len(poten_edge_tstamps); len(poten_edge_users) in
\* generate_random_reconstruction
NumRetweets ==
    IF script = "random" THEN Len(poten_edge_users)
    ELSE Len(poten_edge_tstamps)

FirstEdge ==
    /\ pc = "start"
    /\ edge_list' = FirstEdgeList(poten_edge_users)
    /\ idx' = FirstIdx
    /\ pc' = "loop"
    /\ UNCHANGED <<inputs, call, n_calls, n_draws, loop>>
    /\ UNCHANGED sweep
    /\ UNCHANGED midterm

\* a faulty variant, for comparison: the slices taken one too far ([:idx + 1])
DriverCallInclusive(i) ==
    PendingCall(Prefix(poten_edge_users, i + 1),
                Prefix(poten_edge_tstamps, i + 1),
                Prefix(poten_edge_fcounts, i + 1), At(poten_edge_tstamps, i),
                gamma, alpha, xmin)

\* a faulty variant, for comparison: the root's timestamp passed as
\* curr_tstamp
DriverCallRootTime(i) ==
    PendingCall(Prefix(poten_edge_users, i), Prefix(poten_edge_tstamps, i),
                Prefix(poten_edge_fcounts, i), At(poten_edge_tstamps, 0),
                gamma, alpha, xmin)

\* a faulty variant, for comparison: the root left out of the candidates
\* ([1:idx])
DriverCallSkipRoot(i) ==
    PendingCall(SubSeq(poten_edge_users, 2, i),
                SubSeq(poten_edge_tstamps, 2, i),
                SubSeq(poten_edge_fcounts, 2, i), At(poten_edge_tstamps, i),
                gamma, alpha, xmin)

\* the arguments the driver passes at loop index i
DriverCall(i) ==
    PendingCall(Prefix(poten_edge_users, i), Prefix(poten_edge_tstamps, i),
                Prefix(poten_edge_fcounts, i), At(poten_edge_tstamps, i),
                gamma, alpha, xmin)

\* a faulty variant, for comparison: the latest edge overwritten
ReplaceLastEdge(edges, parent, child) ==
    [edges EXCEPT ![Len(edges)] = <<parent, child>>]

\* a faulty variant, for comparison: the pair appended the wrong way round
AppendEdgeSwapped(edges, parent, child) == Append(edges, <<child, parent>>)

\* edge_list.append((inferred_parent, retweeter_tid))
AppendEdge(edges, parent, child) == Append(edges, <<parent, child>>)

\* a faulty variant, for comparison: the division done in place on the slice,
\* which is a view of the caller's array
FcountsDividedInPlace(fcounts, i) ==
    LET total_fcounts == SumInts(Prefix(fcounts, i))
    IN  [j \in DOMAIN fcounts |->
            IF j <= i /\ total_fcounts > 0 THEN fcounts[j] \div total_fcounts
            ELSE fcounts[j]]

\* the caller's array after get_who_rtd_whom ran on the view
\* poten_edge_fcounts[:i]: poten_edge_fcounts / total_fcounts builds a new
\* array, and nothing else writes to the view
FcountsAfterCall(fcounts, i) == fcounts

\* one pass of the loop body of entire_cascade_reconstruction
InferParent ==
    /\ pc = "loop"
    /\ script # "random"
    /\ idx < NumRetweets
    /\ \E c \in {DriverCall(idx)} : \E r \in {Arrays(c)} :
           IF ChoiceRaises(r.indiv_probs)
           THEN /\ call' = CompletedCall(c, r, 0)
                /\ pc' = "raised"
                /\ n_calls' = n_calls + 1
                /\ UNCHANGED <<idx, edge_list, n_draws>>
           ELSE \E k \in ChoiceSupport(r.indiv_probs) :
                /\ call' = CompletedCall(c, r, k)
                /\ edge_list' = AppendEdge(edge_list, call'.retweeted_uid,
                                           At(poten_edge_users, idx))
                /\ idx' = idx + 1
                /\ n_calls' = n_calls + 1
                /\ n_draws' = n_draws + 1
                /\ pc' = pc
    /\ poten_edge_fcounts' = FcountsAfterCall(poten_edge_fcounts, idx)
    /\ UNCHANGED <<script, poten_edge_users, poten_edge_tstamps, gamma, alpha,
                   xmin, loop>>
    /\ UNCHANGED sweep
    /\ UNCHANGED midterm

\* one pass of the loop body of generate_random_reconstruction:
\* np.random.choice(poten_edge_users[:idx]) is uniform over the prefix
RandomParent ==
    /\ pc = "loop"
    /\ script = "random"
    /\ idx < NumRetweets
    /\ \E k \in 1..idx :
          edge_list' = AppendEdge(edge_list, Prefix(poten_edge_users, idx)[k],
                                  At(poten_edge_users, idx))
    /\ idx' = idx + 1
    /\ n_draws' = n_draws + 1
    /\ UNCHANGED <<inputs, pc, call, n_calls, loop>>
    /\ UNCHANGED sweep
    /\ UNCHANGED midterm

\* return edge_list
Return ==
    /\ pc = "loop"
    /\ idx >= NumRetweets
    /\ pc' = "done"
    /\ UNCHANGED <<inputs, idx, edge_list, call, n_calls, n_draws, loop>>
    /\ UNCHANGED sweep
    /\ UNCHANGED midterm

\* ------------------------------------------------------------------------
\* The version loop of the scripts (__main__), one cascade
\* ------------------------------------------------------------------------
\* a faulty variant, for comparison: the two-event rule forgotten
NumCascadeVersionsAlways(num_tweets) == N_SIMULATIONS

\* num_cascade_versions = 1 if (num_tweets == 2) else N_SIMULATIONS
NumCascadeVersions(num_tweets) == IF num_tweets = 2 THEN 1 ELSE N_SIMULATIONS

SetVersions ==
    /\ spc = "main"
    /\ num_cascade_versions' = NumCascadeVersions(Len(poten_edge_users))
    /\ spc' = "running"
    /\ UNCHANGED <<inputs, driver, call, n_launched, n_returned>>
    /\ UNCHANGED sweep
    /\ UNCHANGED midterm

\* a faulty variant, for comparison: the edge list of the version before
\* handed out again
ReusedRun(edges) ==
    IF edges = <<>> THEN [pc |-> "start", edge_list |-> <<>>]
    ELSE [pc |-> "done", edge_list |-> edges]

\* delayed(entire_cascade_reconstruction)(...): every task is a call of its
\* own, whatever the task before returned
FreshRun(edges) == [pc |-> "start", edge_list |-> <<>>]

\* Parallel(...)(delayed(f)(...) for _ in range(num_cascade_versions)):
\* the next task starts
LaunchVersion ==
    /\ spc = "running"
    /\ pc = "idle"
    /\ n_launched < num_cascade_versions
    /\ n_launched' = n_launched + 1
    /\ pc' = FreshRun(edge_list).pc
    /\ idx' = 0
    /\ edge_list' = FreshRun(edge_list).edge_list
    /\ n_calls' = 0
    /\ n_draws' = 0
    /\ UNCHANGED <<inputs, call, spc, num_cascade_versions, n_returned>>
    /\ UNCHANGED sweep
    /\ UNCHANGED midterm

\* a task's edge list joins edge_lists
CollectVersion ==
    /\ spc = "running"
    /\ pc = "done"
    /\ n_returned' = n_returned + 1
    /\ pc' = "idle"
    /\ version_set' = version_set \cup {edge_list}
    /\ UNCHANGED <<inputs, idx, edge_list, n_calls, n_draws, call, spc,
                   num_cascade_versions, n_launched>>
    /\ UNCHANGED <<data, n_procs, runs, combo, cas_num, cascade_frame, workers,
                   rng_tasks, driver_outcomes, edge_lists, vnum, disk,
                   all_uris, final_uris_list>>
    /\ UNCHANGED midterm

\* a task raised: Parallel re-raises and nothing in the script catches it
VersionRaises ==
    /\ spc = "running"
    /\ pc = "raised"
    /\ spc' = "crashed"
    /\ UNCHANGED <<inputs, driver, call, num_cascade_versions, n_launched,
                   n_returned>>
    /\ UNCHANGED sweep
    /\ UNCHANGED midterm

\* the loop that writes one file per collected edge list
SaveVersions ==
    /\ spc = "running"
    /\ pc = "idle"
    /\ n_launched = num_cascade_versions
    /\ spc' = "saved"
    /\ UNCHANGED <<inputs, driver, call, num_cascade_versions, n_launched,
                   n_returned>>
    /\ UNCHANGED sweep
    /\ UNCHANGED midterm

\* ------------------------------------------------------------------------
\* Inputs
\* ------------------------------------------------------------------------
NonDecreasing(t) == \A i \in 1..Len(t) - 1 : t[i] <= t[i + 1]

\* cascade_frame.sort_values(...): timestamps in non-decreasing order
CascadeTstamps(L) == {t \in [1..L -> 0..MaxTstamp] : NonDecreasing(t)}

\* list(cascade_frame["tid"]): tweet ids, one per row, all different
Tids(L) == [i \in 1..L |-> i]

\* list(cascade_frame["author"]): the root's author first (named 1), any
\* author at the other positions
AuthorLists(L) == {u \in [1..L -> Authors] : u[1] = 1}

DriverIdle ==
    /\ pc = "idle" /\ idx = 0 /\ edge_list = <<>> /\ n_calls = 0 /\ n_draws = 0

LoopOff ==
    /\ spc = "off" /\ num_cascade_versions = 0
    /\ n_launched = 0 /\ n_returned = 0

\* final_uris_list.txt has not been written
NoUriFile == [written |-> FALSE, uris |-> {}]

\* no sweep of the script is modelled
SweepOff ==
    /\ data = <<>> /\ n_procs = 0 /\ runs = 0 /\ combo = 0 /\ cas_num = 0
    /\ cascade_frame = <<>> /\ workers = <<>> /\ rng_tasks = <<>>
    /\ driver_outcomes = {} /\ edge_lists = <<>> /\ vnum = 0 /\ disk = <<>>
    /\ version_set = {} /\ all_uris = {} /\ final_uris_list = NoUriFile

\* 002_extract_cascade_data is not modelled
ExtractOff ==
    /\ lines = <<>> /\ sampled_cascade_ids = {} /\ line_num = 0
    /\ records = <<>> /\ seen_cascades = {} /\ tweet_id = <<>> /\ epc = "off"

\* 002_generate_networks is not modelled
NetworksOff ==
    /\ cas_files = <<>> /\ n_versions = 0 /\ cascade_numv_map = <<>>
    /\ net_ver_files_map = <<>> /\ global_net = <<>> /\ npc = "off"

\* neither midterm script is modelled
MidtermOff == ExtractOff /\ NetworksOff

\* the lists of a cascade with ids that are all different
InitTids(L) ==
    /\ poten_edge_users = Tids(L)
    /\ poten_edge_tstamps \in CascadeTstamps(L)
    /\ poten_edge_fcounts \in [1..L -> CascadeFcounts]

\* the lists the Bluesky script builds: authors, and each author's
\* followers_count merged onto the author's rows
InitAuthors(L) ==
    /\ poten_edge_users \in AuthorLists(L)
    /\ poten_edge_tstamps \in CascadeTstamps(L)
    /\ \E followers_count \in [Authors -> CascadeFcounts] :
          poten_edge_fcounts = [i \in 1..L |-> followers_count[poten_edge_users[i]]]

\* the list the random script builds
InitRandom(L) ==
    /\ poten_edge_users = Tids(L)
    /\ poten_edge_tstamps = <<>>
    /\ poten_edge_fcounts = <<>>
    /\ gamma = 0 /\ alpha = 0 /\ xmin = 0

\* One run of the driver: on lists of distinct ids with any valid
\* parameters, on the Bluesky script's lists with the script's parameters,
\* or the random driver.
Init ==
    /\ \E L \in 2..MaxLen :
        \/ /\ script = "direct"
           /\ InitTids(L)
           /\ gamma \in Gammas /\ alpha \in ALPHA_VALUES /\ xmin \in Xmins
        \/ /\ script = "bluesky"
           /\ InitAuthors(L)
           /\ gamma \in GAMMA_VALUES /\ alpha \in ALPHA_VALUES /\ xmin = XMIN
        \/ /\ script = "random"
           /\ InitRandom(L)
    /\ pc = "start" /\ idx = 0 /\ edge_list = <<>> /\ n_calls = 0 /\ n_draws = 0
    /\ call = NoCall
    /\ LoopOff
    /\ SweepOff
    /\ MidtermOff

Next == FirstEdge \/ InferParent \/ RandomParent \/ Return

Spec == Init /\ [][Next]_vars

\* One direct call of get_who_rtd_whom on candidates causally prior to
\* curr_tstamp.
InitEngine ==
    /\ script = "none"
    /\ poten_edge_users = <<>> /\ poten_edge_tstamps = <<>>
    /\ poten_edge_fcounts = <<>>
    /\ gamma = 0 /\ alpha = 0 /\ xmin = 0
    /\ DriverIdle
    /\ LoopOff
    /\ SweepOff
    /\ MidtermOff
    /\ \E n \in 1..MaxCand, curr \in 0..MaxCurr :
       \E tstamps \in {t \in [1..n -> 0..curr] : NonDecreasing(t)},
          fcounts \in [1..n -> FcountValues],
          g \in Gammas, a \in ALPHA_VALUES, x \in Xmins :
            call = PendingCall(Tids(n), tstamps, fcounts, curr, g, a, x)

NextEngine == GetWhoRtdWhom

SpecEngine == InitEngine /\ [][NextEngine]_vars

\* The version loop of a script on one cascade.
InitScript ==
    /\ \E L \in 2..MaxLen :
        \/ /\ script = "vosoughi"
           /\ poten_edge_users = Tids(L)
           /\ poten_edge_tstamps = [i \in 1..L |-> 0]
           /\ poten_edge_fcounts \in {[i \in 1..L |-> f] : f \in CascadeFcounts}
           /\ gamma \in GAMMA_VALUES /\ alpha = 2 /\ xmin = XMIN
        \/ /\ script = "bluesky"
           /\ poten_edge_users = [i \in 1..L |-> IF i = 2 THEN 2 ELSE 1]
           /\ poten_edge_tstamps = [i \in 1..L |-> 0]
           /\ poten_edge_fcounts = [i \in 1..L |-> 1]
           /\ gamma = 2 /\ alpha = 2 /\ xmin = XMIN
        \/ /\ script = "random"
           /\ InitRandom(L)
    /\ DriverIdle
    /\ call = NoCall
    /\ spc = "main" /\ num_cascade_versions = 0
    /\ n_launched = 0 /\ n_returned = 0
    /\ SweepOff
    /\ MidtermOff

NextScript ==
    \/ SetVersions \/ LaunchVersion \/ CollectVersion \/ VersionRaises
    \/ SaveVersions
    \/ FirstEdge \/ InferParent \/ RandomParent \/ Return

SpecScript == InitScript /\ [][NextScript]_vars

MaxWalk == 4         \* longest cascade of a walk with the scripts' parameters

\* One run of entire_cascade_reconstruction on the lists of a cascade as
\* the Vosoughi script builds them, with the scripts' parameters.
InitWalk ==
    /\ script = "vosoughi"
    /\ \E L \in 2..MaxWalk : InitTids(L)
    /\ gamma \in GAMMA_VALUES /\ alpha \in ALPHA_VALUES /\ xmin = XMIN
    /\ pc = "start" /\ idx = 0 /\ edge_list = <<>> /\ n_calls = 0 /\ n_draws = 0
    /\ call = NoCall
    /\ LoopOff
    /\ SweepOff
    /\ MidtermOff

NextWalk == FirstEdge \/ InferParent \/ Return

SpecWalk == InitWalk /\ [][NextWalk]_vars

\* The version loop of the Vosoughi script on a cascade of three or more
\* events, everybody with one follower.
InitVersions ==
    /\ script = "vosoughi"
    /\ \E L \in 3..MaxWalk :
          /\ poten_edge_users = Tids(L)
          /\ poten_edge_tstamps = [i \in 1..L |-> IF i = 1 THEN 0 ELSE MaxTstamp]
          /\ poten_edge_fcounts = [i \in 1..L |-> 1]
    /\ gamma \in GAMMA_VALUES /\ alpha = 2 /\ xmin = XMIN
    /\ DriverIdle
    /\ call = NoCall
    /\ spc = "main" /\ num_cascade_versions = 0
    /\ n_launched = 0 /\ n_returned = 0
    /\ SweepOff
    /\ MidtermOff

NextVersions ==
    \/ SetVersions \/ LaunchVersion \/ CollectVersion \/ SaveVersions
    \/ FirstEdge \/ InferParent \/ Return

SpecVersions == InitVersions /\ [][NextVersions]_vars

\* ------------------------------------------------------------------------
\* The scripts' sweep (__main__): the (gamma, alpha) loops, the cascade loop,
\* Parallel's worker processes, the save loop and the output directories.
\* A version task is one call of the driver in a worker process; the sweep
\* keeps of its result the task and the number of edges.
\* ------------------------------------------------------------------------
MaxCombos == 2       \* the sweep covers the first MaxCombos (gamma, alpha)
MaxCascades == 2     \* most cascades in the loaded data
MaxRuns == 2         \* most runs of the script over one output directory
MaxLoad == 3         \* most cascades and worker processes together
MaxLong == 1         \* most cascades of three events in resumed runs

\* for gamma in GAMMA_VALUES: for alpha in ALPHA_VALUES, in loop order
Combos == << <<1, 2>>, <<1, 3>>, <<2, 2>>, <<2, 3>>, <<3, 2>>, <<3, 3>> >>
NumCombos == IF MaxCombos < Len(Combos) THEN MaxCombos ELSE Len(Combos)

\* len(os.listdir(cascade_dir)) == 100
CompleteDirSize == 100

\* N_PROCS = multiprocessing.cpu_count()
ProcCounts == {1, 2}

\* a row of the loaded data: the id the script lists (tid, or author), the
\* timestamp, the follower count, and whether it is the original post
Row(id, t, f, ty) == [id |-> id, tstamp |-> t, fcount |-> f, type |-> ty]

\* two events
PairCascade == <<Row(1, 0, 1, "post"), Row(2, 1, 1, "repost")>>
\* the original post and a reshare carry the same timestamp
TiedCascade ==
    <<Row(1, 0, 1, "post"), Row(2, 0, 1, "repost"), Row(3, 1, 1, "repost")>>
\* nobody has a follower
SilentCascade ==
    <<Row(1, 0, 0, "post"), Row(2, 1, 0, "repost"), Row(3, 2, 0, "repost")>>

CascadeFrames == {PairCascade, TiedCascade, SilentCascade}
DataSets == UNION {[1..n -> CascadeFrames] : n \in 1..MaxCascades}

\* cascade_frame.sort_values(<date column>, ascending=True): the default
\* sort is not stable, so rows of equal timestamp come in any order
SortedFrames(rows) ==
    LET n == Len(rows)
        perms == {q \in [1..n -> 1..n] :
                     \A i, j \in 1..n : i # j => q[i] # q[j]}
        frames == {[i \in 1..n |-> rows[q[i]]] : q \in perms}
    IN  {f \in frames : NonDecreasing([i \in 1..n |-> f[i].tstamp])}

\* a cascade directory: whether it exists and its files v_001, v_002, ...
NoDir == [exists |-> FALSE, files |-> <<>>]
EmptyDisk == [cb \in 1..NumCombos |-> [c \in DOMAIN data |-> NoDir]]

\* os.path.exists(alpha_dir): makedirs(cascade_dir) creates it
AlphaDirExists(cb) == \E c \in DOMAIN data : disk[cb][c].exists
\* len(os.listdir(alpha_dir))
NumCascadeDirs(cb) == Cardinality({c \in DOMAIN data : disk[cb][c].exists})

\* the graph attributes g.write(..., format="graphmlz") stores: g.cascade_id,
\* g.alpha and g.gamma are set as attributes of the Python object, not as
\* graph attributes (g["cascade_id"] = ...), so the stored graph has none
GraphAttributes == {}

\* a slot of Parallel's result list that is not filled yet
NoResult == [task |-> 0, n_edges |-> 0]

\* a faulty variant, for comparison: the driver catches the exception and
\* returns the edges it has
ReturnEdgesSoFar(edges) == [raised |-> FALSE, edge_list |-> edges]

\* the engine's exception inside the driver's loop: the driver has no
\* try/except, so the exception leaves it and the edges built so far are
\* dropped with its frame
Propagate(edges) == [raised |-> TRUE, edge_list |-> <<>>]

\* what entire_cascade_reconstruction can end with from loop index i with
\* the edge list edges: an edge list returned, or the engine's exception
RECURSIVE DriverRuns(_, _)
DriverRuns(i, edges) ==
    IF i >= NumRetweets THEN {[raised |-> FALSE, edge_list |-> edges]}
    ELSE UNION {
           IF ChoiceRaises(r.indiv_probs)
           THEN {Propagate(edges)}
           ELSE UNION {DriverRuns(i + 1,
                                  AppendEdge(edges, DriverCall(i).users[k],
                                             At(poten_edge_users, i))) :
                         k \in ChoiceSupport(r.indiv_probs)} :
           r \in {Arrays(DriverCall(i))}}

\* the ends of a whole call of the driver on the current lists
entire_cascade_reconstruction ==
    DriverRuns(FirstIdx, FirstEdgeList(poten_edge_users))

\* a faulty variant, for comparison: results kept in the order the tasks
\* finish
CollectAsCompleted(results, k, r) ==
    LET free == {i \in DOMAIN results : results[i] = NoResult}
        first == CHOOSE i \in free : \A j \in free : i <= j
    IN  [results EXCEPT ![first] = r]

\* Parallel returns the results in the order of the tasks
Collect(results, k, r) == [results EXCEPT ![k] = r]

\* g.write(output_path_fname, format="graphmlz") for version v with the
\* result r: the file holds the graph and its graph attributes; writes
\* counts how often the path was written
WriteGraph(files, v, r) ==
    LET file == [task |-> r.task, n_edges |-> r.n_edges,
                 attributes |-> GraphAttributes,
                 writes |-> IF v <= Len(files) THEN files[v].writes + 1 ELSE 1]
    IN  IF v <= Len(files) THEN [files EXCEPT ![v] = file]
        ELSE Append(files, file)

SweepFrame ==
    UNCHANGED <<script, driver, call, data, n_procs, runs, version_set, midterm>>

\* Bluesky, after the loops: open(output_uri_filepath, "w") and one line
\* per member of all_uris
WriteUriFile ==
    IF script = "bluesky" THEN [written |-> TRUE, uris |-> all_uris]
    ELSE final_uris_list

\* the next (gamma, alpha), or the end of the script
AfterAlphaLevel ==
    IF combo < NumCombos
    THEN /\ combo' = combo + 1
         /\ gamma' = Combos[combo + 1][1] /\ alpha' = Combos[combo + 1][2]
         /\ spc' = "alpha"
         /\ UNCHANGED <<cas_num, final_uris_list>>
    ELSE /\ spc' = "complete"
         /\ final_uris_list' = WriteUriFile
         /\ UNCHANGED <<combo, gamma, alpha, cas_num>>

\* the next cascade of the loop, or the end of the alpha level
AfterCascade ==
    IF cas_num < Len(data)
    THEN /\ cas_num' = cas_num + 1
         /\ spc' = "cascade"
         /\ UNCHANGED <<combo, gamma, alpha, final_uris_list>>
    ELSE AfterAlphaLevel

\* "Skip completed alpha levels": as many cascade directories as cascades
SkipAlphaLevel ==
    /\ spc = "alpha"
    /\ AlphaDirExists(combo) /\ NumCascadeDirs(combo) = Len(data)
    /\ AfterAlphaLevel
    /\ UNCHANGED <<poten_edge_users, poten_edge_tstamps, poten_edge_fcounts,
                   xmin, num_cascade_versions, n_launched, n_returned,
                   cascade_frame, workers, rng_tasks, driver_outcomes,
                   edge_lists, vnum, disk>>
    /\ UNCHANGED all_uris
    /\ SweepFrame

\* the alpha level is not skipped: the cascade loop starts
EnterCascades ==
    /\ spc = "alpha"
    /\ ~(AlphaDirExists(combo) /\ NumCascadeDirs(combo) = Len(data))
    /\ cas_num' = 1
    /\ spc' = "cascade"
    /\ UNCHANGED <<inputs, num_cascade_versions, n_launched, n_returned,
                   combo, cascade_frame, workers, rng_tasks, driver_outcomes,
                   edge_lists, vnum, disk>>
    /\ UNCHANGED <<all_uris, final_uris_list>>
    /\ SweepFrame

\* the cascade directory exists and holds 100 files
SkipCascade ==
    /\ spc = "cascade"
    /\ disk[combo][cas_num].exists
    /\ Len(disk[combo][cas_num].files) = CompleteDirSize
    /\ AfterCascade
    /\ UNCHANGED <<poten_edge_users, poten_edge_tstamps, poten_edge_fcounts,
                   xmin, num_cascade_versions, n_launched, n_returned,
                   cascade_frame, workers, rng_tasks, driver_outcomes,
                   edge_lists, vnum, disk>>
    /\ UNCHANGED all_uris
    /\ SweepFrame

\* Bluesky: "Skip cascade: original post comes after a repost"
SkipRootNotFirst ==
    /\ spc = "cascade"
    /\ script = "bluesky"
    /\ ~(disk[combo][cas_num].exists
         /\ Len(disk[combo][cas_num].files) = CompleteDirSize)
    /\ \E f \in SortedFrames(data[cas_num]) :
          /\ f[1].type # "post"
          /\ cascade_frame' = f
    /\ AfterCascade
    /\ UNCHANGED <<poten_edge_users, poten_edge_tstamps, poten_edge_fcounts,
                   xmin, num_cascade_versions, n_launched, n_returned,
                   workers, rng_tasks, driver_outcomes, edge_lists, vnum,
                   disk>>
    /\ UNCHANGED all_uris
    /\ SweepFrame

\* makedirs(cascade_dir), the cascade's rows sorted, num_cascade_versions
\* and the three lists
BuildLists ==
    /\ spc = "cascade"
    /\ ~(disk[combo][cas_num].exists
         /\ Len(disk[combo][cas_num].files) = CompleteDirSize)
    /\ \E f \in SortedFrames(data[cas_num]) :
          /\ script = "bluesky" => f[1].type = "post"
          /\ cascade_frame' = f
          /\ poten_edge_users' = [i \in DOMAIN f |-> f[i].id]
          /\ poten_edge_tstamps' = [i \in DOMAIN f |-> f[i].tstamp]
          /\ poten_edge_fcounts' = [i \in DOMAIN f |-> f[i].fcount]
          /\ num_cascade_versions' = NumCascadeVersions(Len(f))
    /\ disk' = [disk EXCEPT ![combo][cas_num].exists = TRUE]
    /\ spc' = "lists"
    /\ UNCHANGED <<gamma, alpha, xmin, n_launched, n_returned, combo, cas_num,
                   workers, rng_tasks, driver_outcomes, edge_lists, vnum>>
    /\ all_uris' = IF script = "bluesky" THEN all_uris \cup {cas_num}
                    ELSE all_uris
    /\ UNCHANGED final_uris_list
    /\ SweepFrame

\* Parallel(n_jobs=N_PROCS, backend="loky")(...) is called
StartParallel ==
    /\ spc = "lists"
    /\ driver_outcomes' = {[raised |-> o.raised, n_edges |-> Len(o.edge_list)] :
                              o \in entire_cascade_reconstruction}
    /\ edge_lists' = [k \in 1..num_cascade_versions |-> NoResult]
    /\ n_launched' = 0 /\ n_returned' = 0
    /\ spc' = "parallel"
    /\ UNCHANGED <<inputs, num_cascade_versions, combo, cas_num,
                   cascade_frame, workers, rng_tasks, vnum, disk>>
    /\ UNCHANGED <<all_uris, final_uris_list>>
    /\ SweepFrame

\* the next task goes to an idle worker process
DispatchTask(w) ==
    /\ spc = "parallel"
    /\ workers[w] = 0
    /\ n_launched < num_cascade_versions
    /\ n_launched' = n_launched + 1
    /\ workers' = [workers EXCEPT ![w] = n_launched + 1]
    /\ UNCHANGED <<inputs, spc, num_cascade_versions, n_returned, combo,
                   cas_num, cascade_frame, rng_tasks, driver_outcomes,
                   edge_lists, vnum, disk>>
    /\ UNCHANGED <<all_uris, final_uris_list>>
    /\ SweepFrame

\* a task's call of the driver returns its edge list; its draws came from
\* np.random of the worker process
FinishTask(w) ==
    /\ spc = "parallel"
    /\ workers[w] # 0
    /\ \E o \in driver_outcomes :
          /\ ~o.raised
          /\ edge_lists' = Collect(edge_lists, workers[w],
                                   [task |-> workers[w], n_edges |-> o.n_edges])
          /\ rng_tasks' = IF o.n_edges > 1 /\ rng_tasks[w] < 2
                          THEN [rng_tasks EXCEPT ![w] = @ + 1]
                          ELSE rng_tasks
    /\ workers' = [workers EXCEPT ![w] = 0]
    /\ n_returned' = n_returned + 1
    /\ UNCHANGED <<inputs, spc, num_cascade_versions, n_launched, combo,
                   cas_num, cascade_frame, driver_outcomes, vnum, disk>>
    /\ UNCHANGED <<all_uris, final_uris_list>>
    /\ SweepFrame

\* a task's call of the driver raises: Parallel stops the other tasks and
\* re-raises, and nothing in the script catches the exception
TaskRaises(w) ==
    /\ spc = "parallel"
    /\ workers[w] # 0
    /\ \E o \in driver_outcomes : o.raised
    /\ workers' = [v \in DOMAIN workers |-> 0]
    /\ spc' = "crashed"
    /\ UNCHANGED <<inputs, num_cascade_versions, n_launched, n_returned, combo,
                   cas_num, cascade_frame, rng_tasks, driver_outcomes,
                   edge_lists, vnum, disk>>
    /\ UNCHANGED <<all_uris, final_uris_list>>
    /\ SweepFrame

\* every task has returned: Parallel returns the list of edge lists
ParallelReturns ==
    /\ spc = "parallel"
    /\ n_returned = num_cascade_versions
    /\ vnum' = 0
    /\ spc' = "save"
    /\ UNCHANGED <<inputs, num_cascade_versions, n_launched, n_returned, combo,
                   cas_num, cascade_frame, workers, rng_tasks, driver_outcomes,
                   edge_lists, disk>>
    /\ UNCHANGED <<all_uris, final_uris_list>>
    /\ SweepFrame

\* one pass of "for vnum, edge_list in enumerate(edge_lists, start=1)"
WriteVersion ==
    /\ spc = "save"
    /\ vnum < Len(edge_lists)
    /\ vnum' = vnum + 1
    /\ disk' = [disk EXCEPT ![combo][cas_num].files =
                                WriteGraph(@, vnum + 1, edge_lists[vnum + 1])]
    /\ UNCHANGED <<inputs, spc, num_cascade_versions, n_launched, n_returned,
                   combo, cas_num, cascade_frame, workers, rng_tasks,
                   driver_outcomes, edge_lists>>
    /\ UNCHANGED <<all_uris, final_uris_list>>
    /\ SweepFrame

\* the save loop is over
EndSaveLoop ==
    /\ spc = "save"
    /\ vnum = Len(edge_lists)
    /\ AfterCascade
    /\ UNCHANGED <<poten_edge_users, poten_edge_tstamps, poten_edge_fcounts,
                   xmin, num_cascade_versions, n_launched, n_returned,
                   cascade_frame, workers, rng_tasks, driver_outcomes,
                   edge_lists, vnum, disk>>
    /\ UNCHANGED all_uris
    /\ SweepFrame

\* the script's process starts: nothing built yet, the first (gamma, alpha)
ScriptStarts ==
    /\ poten_edge_users = <<>> /\ poten_edge_tstamps = <<>>
    /\ poten_edge_fcounts = <<>>
    /\ combo = 1 /\ gamma = Combos[1][1] /\ alpha = Combos[1][2] /\ xmin = XMIN
    /\ cas_num = 0 /\ cascade_frame = <<>>
    /\ workers = [w \in 1..n_procs |-> 0]
    /\ rng_tasks = [w \in 1..n_procs |-> 0]
    /\ driver_outcomes = {} /\ edge_lists = <<>> /\ vnum = 0
    /\ num_cascade_versions = 0 /\ n_launched = 0 /\ n_returned = 0
    /\ all_uris = {}
    /\ spc = "alpha"

\* The first run of a script over an empty output directory.
InitRun ==
    /\ script \in {"vosoughi", "bluesky"}
    /\ data \in DataSets
    /\ n_procs \in ProcCounts
    /\ Len(data) + n_procs <= MaxLoad
    /\ runs = 1
    /\ disk = EmptyDisk
    /\ version_set = {} /\ final_uris_list = NoUriFile
    /\ MidtermOff
    /\ ScriptStarts
    /\ DriverIdle
    /\ call = NoCall

NextRun ==
    \/ EnterCascades \/ SkipRootNotFirst \/ BuildLists \/ StartParallel
    \/ \E w \in DOMAIN workers : DispatchTask(w)
    \/ \E w \in DOMAIN workers : FinishTask(w)
    \/ \E w \in DOMAIN workers : TaskRaises(w)
    \/ ParallelReturns \/ WriteVersion \/ EndSaveLoop

SpecRun == InitRun /\ [][NextRun]_vars

\* the script's process is gone: its variables with it; the output
\* directory stays
ProcessGone ==
    /\ poten_edge_users' = <<>> /\ poten_edge_tstamps' = <<>>
    /\ poten_edge_fcounts' = <<>>
    /\ combo' = 1 /\ gamma' = Combos[1][1] /\ alpha' = Combos[1][2]
    /\ cas_num' = 0 /\ cascade_frame' = <<>>
    /\ workers' = [w \in 1..n_procs |-> 0]
    /\ rng_tasks' = [w \in 1..n_procs |-> 0]
    /\ driver_outcomes' = {} /\ edge_lists' = <<>> /\ vnum' = 0
    /\ num_cascade_versions' = 0 /\ n_launched' = 0 /\ n_returned' = 0
    /\ UNCHANGED <<xmin, disk>>
    /\ all_uris' = {}
    /\ UNCHANGED final_uris_list
    /\ SweepFrame

\* the run is interrupted (Ctrl-C, a kill, a power cut) at any point
Interrupt ==
    /\ spc \in {"alpha", "cascade", "lists", "parallel", "save"}
    /\ runs < MaxRuns
    /\ spc' = "killed"
    /\ ProcessGone

\* the script is started again over the same output directory
Restart ==
    /\ spc \in {"killed", "crashed", "complete"}
    /\ runs < MaxRuns
    /\ spc' = "alpha"
    /\ poten_edge_users' = <<>> /\ poten_edge_tstamps' = <<>>
    /\ poten_edge_fcounts' = <<>>
    /\ combo' = 1 /\ gamma' = Combos[1][1] /\ alpha' = Combos[1][2]
    /\ cas_num' = 0 /\ cascade_frame' = <<>>
    /\ workers' = [w \in 1..n_procs |-> 0]
    /\ rng_tasks' = [w \in 1..n_procs |-> 0]
    /\ driver_outcomes' = {} /\ edge_lists' = <<>> /\ vnum' = 0
    /\ num_cascade_versions' = 0 /\ n_launched' = 0 /\ n_returned' = 0
    /\ runs' = runs + 1
    /\ all_uris' = {}
    /\ UNCHANGED <<script, xmin, driver, call, data, n_procs, disk,
                   version_set, final_uris_list, midterm>>

\* Runs of a script, one after another, over one output directory.
InitResume ==
    /\ script \in {"vosoughi", "bluesky"}
    /\ data \in DataSets
    /\ Cardinality({c \in DOMAIN data : Len(data[c]) > 2}) <= MaxLong
    /\ n_procs = 1
    /\ runs = 1
    /\ disk = EmptyDisk
    /\ version_set = {} /\ final_uris_list = NoUriFile
    /\ MidtermOff
    /\ ScriptStarts
    /\ DriverIdle
    /\ call = NoCall

NextResume ==
    \/ SkipAlphaLevel \/ EnterCascades \/ SkipCascade \/ SkipRootNotFirst
    \/ BuildLists \/ StartParallel
    \/ \E w \in DOMAIN workers : DispatchTask(w)
    \/ \E w \in DOMAIN workers : FinishTask(w)
    \/ \E w \in DOMAIN workers : TaskRaises(w)
    \/ ParallelReturns \/ WriteVersion \/ EndSaveLoop
    \/ Interrupt \/ Restart

SpecResume == InitResume /\ [][NextResume]_vars

\* ------------------------------------------------------------------------
\* Calls outside the caller's contract
\* ------------------------------------------------------------------------
AnyGammas == -1..GammaSteps + 1          \* with gamma < 0 and gamma > 1
AnyAlphas == {0, 1} \cup ALPHA_VALUES    \* with alpha <= 1
AnyXmins == {-1, 0} \cup Xmins           \* with xmin <= 0
AnyFcounts == {-1} \cup CascadeFcounts   \* with a negative audience size
AnyTstamps(L) == {t \in [1..L -> -1..MaxTstamp] : NonDecreasing(t)}

\* gamma outside [0,1], alpha <= 1, xmin <= 0, a negative timestamp or a
\* negative audience size
InvalidConfiguration(tstamps, fcounts, g, a, x) ==
    \/ g \notin Gammas
    \/ a <= 1
    \/ x <= 0
    \/ \E i \in DOMAIN tstamps : tstamps[i] < 0
    \/ \E i \in DOMAIN fcounts : fcounts[i] < 0

\* The driver called with an invalid configuration: any of them on a
\* cascade of two events (no array is computed), negative timestamps on a
\* longer one (the arrays are computed from time differences only).
InitInvalid ==
    /\ script = "direct"
    /\ \E L \in 2..MaxLen :
          /\ poten_edge_users = Tids(L)
          /\ \/ /\ L = 2
                /\ poten_edge_tstamps \in AnyTstamps(L)
                /\ poten_edge_fcounts \in [1..L -> AnyFcounts]
                /\ gamma \in AnyGammas /\ alpha \in AnyAlphas /\ xmin \in AnyXmins
             \/ /\ L > 2
                /\ poten_edge_tstamps \in AnyTstamps(L)
                /\ poten_edge_fcounts \in [1..L -> CascadeFcounts]
                /\ gamma \in Gammas /\ alpha \in ALPHA_VALUES /\ xmin \in Xmins
    /\ InvalidConfiguration(poten_edge_tstamps, poten_edge_fcounts,
                            gamma, alpha, xmin)
    /\ pc = "start" /\ idx = 0 /\ edge_list = <<>> /\ n_calls = 0 /\ n_draws = 0
    /\ call = NoCall

\* get_who_rtd_whom called with a candidate later than curr_tstamp, alpha
\* even (2.0 of ALPHA_VALUES).
InitMisordered ==
    /\ script = "none"
    /\ poten_edge_users = <<>> /\ poten_edge_tstamps = <<>>
    /\ poten_edge_fcounts = <<>>
    /\ gamma = 0 /\ alpha = 0 /\ xmin = 0
    /\ DriverIdle
    /\ \E n \in 1..MaxCand, curr \in 0..MaxCurr :
       \E tstamps \in {t \in [1..n -> 0..MaxCurr + 1] :
                          NonDecreasing(t) /\ t[n] > curr},
          fcounts \in [1..n -> FcountValues],
          g \in Gammas, x \in Xmins :
            call = PendingCall(Tids(n), tstamps, fcounts, curr, g, 2, x)

InitContract ==
    /\ InitInvalid \/ InitMisordered
    /\ LoopOff
    /\ SweepOff
    /\ MidtermOff

NextContract == FirstEdge \/ InferParent \/ Return \/ GetWhoRtdWhom

SpecContract == InitContract /\ [][NextContract]_vars

\* ------------------------------------------------------------------------
\* Properties
\* ------------------------------------------------------------------------
NumEvents == Len(poten_edge_users)

\* C1: a completed run of the driver returns exactly L-1 edges, and the
\* k-th edge (k = 0..L-2) has the event at position k+1 as its child.
C1_EdgePerNonRootEvent ==
    pc = "done" =>
        /\ Len(edge_list) = NumEvents - 1
        /\ \A k \in 0..NumEvents - 2 :
              At(edge_list, k)[2] = At(poten_edge_users, k + 1)

C1_Witness ==
    /\ pc = "done" /\ script = "direct" /\ NumEvents = MaxLen
    /\ n_calls = MaxLen - 2

\* C2: at each step i >= 2 the driver passes events[0:i] as candidates and
\* events[i].timestamp as the current timestamp, and the parent it appends
\* with events[i].actor_id as child is the actor id of one of those
\* candidates; a call that raises appends nothing.
C2_ParentIsAnEarlierEvent ==
    /\ call.state = "returned" =>
          LET i == idx - 1
          IN  /\ i >= 2
              /\ call.users = Prefix(poten_edge_users, i)
              /\ call.tstamps = Prefix(poten_edge_tstamps, i)
              /\ call.fcounts = Prefix(poten_edge_fcounts, i)
              /\ call.curr = At(poten_edge_tstamps, i)
              /\ call.chosen \in 1..i
              /\ call.retweeted_uid = poten_edge_users[call.chosen]
              /\ At(edge_list, i - 1)
                    = <<call.retweeted_uid, At(poten_edge_users, i)>>
    /\ call.state = "raised" =>
          /\ call.users = Prefix(poten_edge_users, idx)
          /\ call.curr = At(poten_edge_tstamps, idx)
          /\ Len(edge_list) = idx - 1
    /\ \A e \in 1..Len(edge_list) - 1 :
          \E j \in 0..e : At(edge_list, e)[1] = At(poten_edge_users, j)

C2_Witness ==
    /\ call.state = "returned" /\ idx = MaxLen /\ call.chosen = MaxLen - 1

\* the edges with child n
EdgesInto(edges, n) == {e \in DOMAIN edges : edges[e][2] = n}

\* following parents from n reaches root within the given number of steps
RECURSIVE ReachesRoot(_, _, _, _)
ReachesRoot(edges, root, n, steps) ==
    \/ n = root
    \/ /\ steps > 0
       /\ \E e \in EdgesInto(edges, n) :
             ReachesRoot(edges, root, edges[e][1], steps - 1)

\* a tree rooted at root over the ids of users: no self-edge, one parent per
\* non-root node, none for the root, every node connected to the root
ValidTree(edges, users) ==
    LET root == users[1]
        nodes == {users[i] : i \in DOMAIN users}
    IN  /\ \A e \in DOMAIN edges : edges[e][1] # edges[e][2]
        /\ \A n \in nodes \ {root} : Cardinality(EdgesInto(edges, n)) = 1
        /\ EdgesInto(edges, root) = {}
        /\ \A n \in nodes : ReachesRoot(edges, root, n, Len(users))

\* C3: every version the driver produces for a cascade handed to it by the
\* reconstruction scripts is a tree rooted at the actor id of event 0: no
\* edge from an actor to itself, one parent per non-root node, connected.
C3_VersionIsATree ==
    pc = "done" /\ script \in {"direct", "bluesky"}
        => ValidTree(edge_list, poten_edge_users)

\* C3 on the lists of distinct ids only, where it holds.
C3_TreeOnDistinctIds ==
    pc = "done" /\ script = "direct" => ValidTree(edge_list, poten_edge_users)

\* C4: the first edge of every version is (events[0].actor_id,
\* events[1].actor_id), made with no call of the engine and no random draw
\* (every later edge costs one draw); for L = 2 it is the whole edge list,
\* whatever the parameters, timestamps and audience sizes.
C4_FirstEdgeDeterministic ==
    pc \in {"loop", "done", "raised"} =>
        /\ At(edge_list, 0) = <<At(poten_edge_users, 0), At(poten_edge_users, 1)>>
        /\ n_draws = Len(edge_list) - 1
        /\ n_calls <= idx - 1
        /\ Len(edge_list) = 1 /\ pc # "raised" => n_calls = 0 /\ call = NoCall
        /\ NumEvents = 2 /\ pc = "done" =>
              /\ Len(edge_list) = 1
              /\ n_calls = 0 /\ n_draws = 0 /\ call = NoCall

C4_Witness ==
    /\ pc = "done" /\ NumEvents = 2 /\ script = "direct"
    /\ gamma = GammaSteps /\ xmin # XMIN
    /\ poten_edge_fcounts = <<0, 0>>

C5_WitnessTwoEvents ==
    /\ spc = "saved" /\ NumEvents = 2 /\ n_returned = 1

Completed == call.state \in {"returned", "raised"}

\* C6: for any non-empty candidate set and valid parameters, the combined
\* vector gamma * p_audience + (1 - gamma) * p_time has non-negative (and
\* defined) entries and sums to 1.
C6_ProbabilityMass == Completed => SumsToOne(call.indiv_probs)

\* C7: with gamma = 1 the selection distribution is the audience-size
\* distribution (where the audience sizes have one); with gamma = 0 it is
\* the normalized time-decay distribution, whatever the audience sizes.
C7_GammaBoundary ==
    /\ Completed /\ call.gamma = GammaSteps /\ SumInts(call.fcounts) > 0 =>
          VecEq(call.indiv_probs, call.fcount_probabilities)
    /\ Completed /\ call.gamma = 0 =>
          VecEq(call.indiv_probs, call.norm_tstamp_prob_array)

\* C8: the parent is drawn over all candidates: every candidate whose
\* p_final is positive is a possible outcome of the draw, and a returned
\* candidate has positive p_final.
C8_WeightedDraw ==
    /\ Completed =>
          call.outcomes = {i \in DOMAIN call.users :
                              /\ ~call.indiv_probs.nan
                              /\ call.indiv_probs.nums[i] # <<>>}
    /\ call.state = "returned" =>
          /\ call.chosen \in call.outcomes
          /\ call.retweeted_uid = call.users[call.chosen]

\* a draw that returned a candidate that does not have the largest p_final
C8_Witness ==
    /\ call.state = "returned"
    /\ \E j \in DOMAIN call.users : Less(call.indiv_probs, call.chosen, j)

\* C9: of two candidates with different time gaps the one with the smaller
\* gap has the strictly higher time-decay probability, before and after
\* normalization.
C9_MonotonicDecay ==
    Completed =>
        \A i, j \in DOMAIN call.tstamps :
            call.curr - call.tstamps[i] < call.curr - call.tstamps[j] =>
                /\ BigLess(call.tdiff_probs.nums[j], call.tdiff_probs.nums[i])
                /\ Less(call.norm_tstamp_prob_array, j, i)

C9_Witness ==
    /\ Completed /\ Len(call.tstamps) = MaxCand
    /\ call.curr - call.tstamps[1] > call.curr - call.tstamps[MaxCand]
    /\ call.curr = call.tstamps[MaxCand]

\* C10: when the candidates' total audience size is 0 the engine does not
\* raise: it draws from a distribution that sums to 1 and returns one of
\* the candidates.
C10_ZeroAudienceFallback ==
    Completed /\ SumInts(call.fcounts) = 0 =>
        /\ call.state = "returned"
        /\ SumsToOne(call.indiv_probs)
        /\ \E i \in DOMAIN call.users : call.retweeted_uid = call.users[i]

\* C11: a driver call with an invalid configuration (gamma outside [0,1],
\* alpha <= 1, xmin <= 0, a negative timestamp or audience size) is rejected:
\* it makes no random draw and returns no edge list.
C11_InvalidRejected ==
    /\ script = "direct"
    /\ InvalidConfiguration(poten_edge_tstamps, poten_edge_fcounts,
                            gamma, alpha, xmin)
    => n_draws = 0 /\ pc # "done"

\* C12: a call of the engine with a candidate later than curr_tstamp (a
\* negative time gap) raises, whatever alpha and gamma; it returns no parent.
C12_NegativeGapFails ==
    /\ Completed
    /\ \E i \in DOMAIN call.tstamps : call.tstamps[i] > call.curr
    => call.state = "raised"

\* C19: no step of a driver run changes the lists or the parameters it was
\* given, so every version of a cascade is computed from the same input; and
\* the edge a step appends is fixed by that input and the step's draw k.
C19_InputsUnchanged ==
    [][ /\ inputs' = inputs
        /\ edge_list' # edge_list /\ pc = "loop" =>
              \E k \in 1..idx :
                 edge_list' = Append(edge_list, <<poten_edge_users[k],
                                                  At(poten_edge_users, idx)>>)
      ]_vars

C19_Witness ==
    /\ spc = "running" /\ pc = "done" /\ n_returned >= 2 /\ n_draws > 0
    /\ script = "vosoughi" /\ SumInts(poten_edge_fcounts) > 0


\* the script holds lists it built for the current cascade
ListsHanded == spc \in {"lists", "parallel", "save"}

\* the (gamma, alpha, cascade) units that have a file
UnitsWithFiles ==
    {u \in (1..NumCombos) \X DOMAIN data : disk[u[1]][u[2]].files # <<>>}

\* C18: every event list the scripts hand to the driver is sorted by
\* non-decreasing timestamp and has the cascade's original post at position
\* 0, also when the original post and a reshare carry the same timestamp.
\* The Vosoughi script sorts by tweet_date only and never looks for the
\* root, so a reshare that ties with the original post can come first.
C18_SortedRootFirst ==
    ListsHanded =>
        /\ NonDecreasing(poten_edge_tstamps)
        /\ cascade_frame[1].type = "post"
        /\ poten_edge_users[1] = cascade_frame[1].id

\* C17: every persisted version carries the cascade id, alpha and gamma in
\* the stored graph, and the files of a cascade are v_001 .. v_N with N the
\* number of versions generated (100, or 1 for a 2-event cascade).
\* The stored graphs carry no attribute at all: only the path identifies.
C17_VersionIdentified ==
    \A u \in UnitsWithFiles :
       LET files == disk[u[1]][u[2]].files
       IN  /\ \A v \in DOMAIN files :
                {"cascade_id", "alpha", "gamma"} \subseteq files[v].attributes
           /\ (spc = "save" /\ combo = u[1] /\ cas_num = u[2])
              \/ Len(files) = NumCascadeVersions(Len(data[u[2]]))


\* the (gamma, alpha, cascade) unit the script is at
CurrentUnit == <<combo, cas_num>>

\* every run of the scripts reconstructs the cascade: somebody has a
\* follower, and under the Bluesky script the post sorts first
AlwaysReconstructed(c) ==
    /\ \E i \in DOMAIN data[c] : data[c][i].fcount > 0
    /\ script = "bluesky" => \A f \in SortedFrames(data[c]) : f[1].type = "post"

\* the unit's versions are all on disk
Persisted(u) ==
    Len(disk[u[1]][u[2]].files) = NumCascadeVersions(Len(data[u[2]]))

\* C13: an error raised while reconstructing one unit does not affect the
\* other units: the other cascades and parameter combinations are still
\* reconstructed and persisted.  The exception of a task leaves Parallel and
\* ends the script, so the units after it are never reached.
C13_ErrorContained ==
    spc = "crashed" =>
        \A u \in (1..NumCombos) \X DOMAIN data :
           u # CurrentUnit /\ AlwaysReconstructed(u[2]) => Persisted(u)

\* C14: when parent inference raises for an event of a version, the version
\* is aborted as a whole: the driver returns no edge list with fewer than
\* L-1 edges, Parallel collects none and none is written to disk.
C14_NoPartialVersion ==
    /\ spc \in {"parallel", "save", "crashed"} =>
          /\ \A o \in driver_outcomes :
                IF o.raised THEN o.n_edges = 0
                ELSE o.n_edges = Len(poten_edge_users) - 1
          /\ \A k \in DOMAIN edge_lists :
                edge_lists[k] # NoResult =>
                   edge_lists[k].n_edges = Len(poten_edge_users) - 1
    /\ \A u \in UnitsWithFiles :
          \A v \in DOMAIN disk[u[1]][u[2]].files :
             disk[u[1]][u[2]].files[v].n_edges = Len(data[u[2]]) - 1
    /\ spc = "crashed" => disk[combo][cas_num].files = <<>>

\* a task of the second cascade raised after the first cascade was saved
C14_Witness ==
    /\ spc = "crashed" /\ cas_num = 2
    /\ \E o \in driver_outcomes : o.raised
    /\ Persisted(<<1, 1>>)
    /\ disk[combo][cas_num].files = <<>>


\* C15: each version task draws from its own random source: no two tasks,
\* on different workers or one after another on the same worker, draw from
\* the same generator.  np.random.choice draws from the generator of the
\* worker process, which every task run by that process shares.
C15_OwnRandomSource == \A w \in DOMAIN rng_tasks : rng_tasks[w] <= 1


\* Parallel has handed back every edge list of the current cascade
AllCollected ==
    /\ n_returned = num_cascade_versions
    /\ Len(edge_lists) = num_cascade_versions
    /\ \A k \in DOMAIN edge_lists : edge_lists[k] # NoResult
    /\ \A w \in DOMAIN workers : workers[w] = 0

\* C20: no version file of a cascade is persisted until all its N tasks have
\* finished and their N edge lists are collected; no task of the next
\* cascade starts before the versions of the cascades reconstructed so far
\* are persisted; the file with version index k holds the edge list of the
\* k-th launched task.
C20_FanOutFanIn ==
    [][ /\ \A u \in (1..NumCombos) \X DOMAIN data :
              disk[u[1]][u[2]].files # disk'[u[1]][u[2]].files =>
                 /\ u = CurrentUnit
                 /\ AllCollected
                 /\ Len(disk'[u[1]][u[2]].files) = vnum'
                 /\ disk'[u[1]][u[2]].files[vnum'].task = vnum'
                 /\ disk'[u[1]][u[2]].files[vnum'].n_edges
                       = edge_lists[vnum'].n_edges
        /\ \A k \in DOMAIN edge_lists :
              edge_lists[k] # NoResult => edge_lists[k].task = k
        /\ n_launched' > n_launched =>
              /\ disk[combo][cas_num].files = <<>>
              /\ \A u \in (1..NumCombos) \X DOMAIN data :
                    u # CurrentUnit /\ disk[u[1]][u[2]].exists => Persisted(u)
      ]_vars

\* a task of the second cascade has started, after the 100 versions of the
\* first cascade were saved
C20_Witness ==
    /\ spc = "parallel" /\ cas_num = 2 /\ n_launched > 0
    /\ num_cascade_versions = N_SIMULATIONS
    /\ Len(disk[1][1].files) = N_SIMULATIONS

\* C16: across any sequence of runs, interrupted anywhere and started again,
\* a cascade whose complete output for a (gamma, alpha) exists is skipped, so
\* every output file is written exactly once, for two-event cascades (one
\* file) as for longer ones (100 files).  The cascade check asks for 100
\* files, so a two-event cascade is never skipped; a cascade interrupted
\* while being saved is saved again from v_001; the alpha-level check counts
\* directories, so it can skip a cascade that has no file yet.
C16_WrittenOnce ==
    /\ \A u \in UnitsWithFiles :
          \A v \in DOMAIN disk[u[1]][u[2]].files :
             disk[u[1]][u[2]].files[v].writes = 1
    /\ spc = "complete" =>
          \A u \in (1..NumCombos) \X DOMAIN data :
             AlwaysReconstructed(u[2]) => Persisted(u)


\* C21: during a driver run the edge list is append-only, and the candidate
\* set of step i is the prefix events[0:i] whatever parents were inferred
\* before.
C21_AppendOnly ==
    [][ /\ pc # "start" =>
              /\ Len(edge_list') >= Len(edge_list)
              /\ SubSeq(edge_list', 1, Len(edge_list)) = edge_list
        /\ call' # call =>
              /\ call'.users = Prefix(poten_edge_users, idx)
              /\ call'.tstamps = Prefix(poten_edge_tstamps, idx)
              /\ call'.fcounts = Prefix(poten_edge_fcounts, idx)
              /\ call'.curr = At(poten_edge_tstamps, idx)
      ]_vars

\* the second inference of a four-event cascade ran after the first one
\* chose the first resharer, and chose the root
C21_Witness ==
    /\ pc = "done" /\ NumEvents = 4 /\ n_calls = 2
    /\ edge_list[2][1] = At(poten_edge_users, 1)
    /\ edge_list[3][1] = At(poten_edge_users, 0)
    /\ call.users = Prefix(poten_edge_users, 3)

\* the calls made so far went to positions 2, 3, ... in that order, each
\* with the prefix before its position as candidates
CallsInOrder ==
    /\ pc \in {"loop", "done"} => n_calls = idx - FirstIdx
    /\ pc = "raised" => n_calls = idx - FirstIdx + 1
    /\ n_calls > 0 =>
          /\ call.state \in {"returned", "raised"}
          /\ Len(call.users) = n_calls + 1
          /\ Len(call.users) >= 2
          /\ call.users[1] = At(poten_edge_users, 0)
          /\ call.curr = At(poten_edge_tstamps, n_calls + 1)
    /\ n_calls = 0 => call = NoCall

C25_GapsNonNegative ==
    call.state # "none" =>
        \A i \in DOMAIN call.tstamps :
           LET gap == TimeDiffs(call.tstamps, call.curr)[i]
           IN  /\ gap >= 0
               /\ ZOf(gap) * OffsetInv >= EpsilonInv
               /\ ZOf(gap) - 1 > 0

\* a call with a candidate of the same second and one of an earlier second
C25_Witness ==
    /\ call.state = "returned" /\ NonDecreasing(poten_edge_tstamps)
    /\ \E i, j \in DOMAIN call.tstamps :
          call.tstamps[i] = call.curr /\ call.tstamps[j] < call.curr


\* every entry of v is a number greater than 0
AllPositive(v) ==
    /\ ~v.nan /\ v.den # <<>>
    /\ \A i \in DOMAIN v.nums : v.nums[i] # <<>>

\* C23: for every candidate with a time gap >= 0, a gap of exactly 0
\* included, the time-decay probability is defined and strictly positive;
\* hence with gamma < 1 every candidate has positive p_final.  The first
\* part holds; p_final is NaN when the audience sizes sum to 0 (C10).
C23_PositiveTimeDecay ==
    Completed =>
        /\ AllPositive(call.tdiff_probs)
        /\ AllPositive(call.norm_tstamp_prob_array)
        /\ call.gamma < GammaSteps => AllPositive(call.indiv_probs)


\* C22: 100 versions of the same cascade with the same parameters are not
\* 100 identical edge lists, for any cascade with at least 2 inference
\* steps.  Nothing excludes that every draw of every version returns the
\* same candidate.
C22_VersionsDiffer ==
    spc = "saved" /\ NumEvents >= 4 => Cardinality(version_set) > 1

\* C22, as the code has it: every version is a run of the driver of its
\* own, which draws once per inference step; each draw can return every
\* candidate; no collected edge list stands for more than one run's result.
C22_FreshDrawsPerVersion ==
    /\ pc = "done" => n_draws = NumEvents - 2 /\ n_calls = NumEvents - 2
    /\ pc = "start" => n_draws = 0 /\ edge_list = <<>>
    /\ call.state = "returned" =>
          /\ call.outcomes = DOMAIN call.users
          /\ Cardinality(call.outcomes) >= 2
    /\ Cardinality(version_set) <= n_returned
    /\ pc = "idle" /\ n_returned > 0 => edge_list \in version_set

\* the 100 versions of a four-event cascade hold all six possible edge lists
C22_Witness ==
    /\ spc = "saved" /\ NumEvents = 4 /\ n_returned = N_SIMULATIONS
    /\ Cardinality(version_set) = 6


\* C26: whenever the script skips a whole alpha level as complete, every
\* cascade of the level has its complete set of version files, wherever
\* earlier runs were interrupted or failed; so a run that reaches the end
\* of the script leaves no cascade without complete output.  The check
\* counts directories, and a directory exists before its first file.
C26_SkippedLevelComplete ==
    /\ [][ spc = "alpha" /\ spc' \in {"alpha", "complete"} =>
              \A c \in DOMAIN data : Persisted(<<combo, c>>) ]_vars
    /\ [](spc = "complete" =>
              \A u \in (1..NumCombos) \X DOMAIN data :
                 disk[u[1]][u[2]].exists => Persisted(u))

\* the cascades that have at least one reconstructed version on disk
UrisWithVersions ==
    {c \in DOMAIN data : \E cb \in 1..NumCombos : disk[cb][c].files # <<>>}

\* C27: when the Bluesky script finishes, final_uris_list.txt holds exactly
\* the URIs of the cascades whose reconstructed versions exist on disk, also
\* when the run resumed from earlier output and skipped complete cascades or
\* alpha levels.  all_uris starts empty in every run and only a cascade that
\* is reconstructed in this run is added.
C27_UriListComplete ==
    script = "bluesky" /\ spc = "complete" =>
        /\ final_uris_list.written
        /\ final_uris_list.uris = UrisWithVersions

\* ---------------------------------------------------------------------
\* midterm/code/data_extraction/002_extract_cascade_data.py
\* ---------------------------------------------------------------------

MaxId == 3
MaxLines == 3

\* a raw tweet: its id, its author, and the retweeted status if it has one
\* (a sequence of zero or one objects)
AuthorOf(id) == id + MaxId

Status(id) == [id_str |-> id, user |-> AuthorOf(id)]

RawTweets ==
    {[id_str |-> i, user |-> AuthorOf(i), retweeted_status |-> <<>>] :
        i \in 1..MaxId}
    \cup
    {[id_str |-> p[1], user |-> AuthorOf(p[1]),
      retweeted_status |-> <<Status(p[2])>>] :
        p \in {q \in (1..MaxId) \X (1..MaxId) : q[1] # q[2]}}

is_retweet(t) == t.retweeted_status # <<>>
get_post_ID(t) == t.id_str
get_user_ID(t) == t.user
retweet_object(t) == t.retweeted_status[1]

\* an id names one tweet: the id of a retweet is never the id of an
\* original tweet or of a retweeted status
IdsConsistent(ls) ==
    \A i, j \in DOMAIN ls :
        is_retweet(ls[i]) =>
            /\ ~is_retweet(ls[j]) => get_post_ID(ls[i]) # get_post_ID(ls[j])
            /\ is_retweet(ls[j]) =>
                  get_post_ID(ls[i]) # get_post_ID(retweet_object(ls[j]))

TweetFiles ==
    {ls \in UNION {[1..n -> RawTweets] : n \in 1..MaxLines} :
        IdsConsistent(ls)}

tweet_obj == lines[line_num + 1]

RootRecord(obj) ==
    [cascade_id |-> get_post_ID(obj), tweet_id |-> get_post_ID(obj),
     is_root |-> TRUE, user_id |-> get_user_ID(obj)]

\* the record of the top-level tweet of a retweet line; its tweet_id is the
\* variable the other branch assigned
RetweetRecord(rt_id) ==
    [cascade_id |-> rt_id, tweet_id |-> tweet_id[1],
     is_root |-> FALSE, user_id |-> get_user_ID(tweet_obj)]

RootOfRetweet(rt_id) ==
    IF rt_id \in seen_cascades THEN <<>>
    ELSE <<RootRecord(retweet_object(tweet_obj))>>

\* a line that is not a retweet
NonRetweetLine ==
    /\ epc = "loop" /\ line_num < Len(lines)
    /\ ~is_retweet(tweet_obj)
    /\ tweet_id' = <<get_post_ID(tweet_obj)>>
    /\ IF \/ get_post_ID(tweet_obj) \notin sampled_cascade_ids
          \/ get_post_ID(tweet_obj) \in seen_cascades
       THEN UNCHANGED <<records, seen_cascades>>
       ELSE /\ records' = Append(records, RootRecord(tweet_obj))
            /\ seen_cascades' = seen_cascades \cup {get_post_ID(tweet_obj)}
    /\ line_num' = line_num + 1
    /\ UNCHANGED <<lines, sampled_cascade_ids, epc, networks>>
    /\ UNCHANGED <<inputs, driver, call, loop, sweep>>

\* a line that is a retweet; the name tweet_id is unbound until a line that
\* is not a retweet has been read
RetweetLine ==
    /\ epc = "loop" /\ line_num < Len(lines)
    /\ is_retweet(tweet_obj)
    /\ LET rt_id == get_post_ID(retweet_object(tweet_obj))
       IN  IF rt_id \notin sampled_cascade_ids
           THEN /\ line_num' = line_num + 1
                /\ UNCHANGED <<records, seen_cascades, epc>>
           ELSE IF tweet_id = <<>>
           THEN /\ epc' = "raised"
                /\ UNCHANGED <<line_num, records, seen_cascades>>
           ELSE /\ records' = Append(records, RetweetRecord(rt_id))
                                 \o RootOfRetweet(rt_id)
                /\ seen_cascades' = seen_cascades \cup {rt_id}
                /\ line_num' = line_num + 1
                /\ UNCHANGED epc
    /\ UNCHANGED <<lines, sampled_cascade_ids, tweet_id, networks>>
    /\ UNCHANGED <<inputs, driver, call, loop, sweep>>

\* the last line was read: the records are returned
extract_cascade_data ==
    /\ epc = "loop" /\ line_num = Len(lines)
    /\ epc' = "returned"
    /\ UNCHANGED <<lines, sampled_cascade_ids, line_num, records,
                   seen_cascades, tweet_id, networks>>
    /\ UNCHANGED <<inputs, driver, call, loop, sweep>>

InitExtract ==
    /\ script = "none"
    /\ poten_edge_users = <<>> /\ poten_edge_tstamps = <<>>
    /\ poten_edge_fcounts = <<>>
    /\ gamma = 0 /\ alpha = 0 /\ xmin = 0
    /\ DriverIdle /\ call = NoCall /\ LoopOff /\ SweepOff /\ NetworksOff
    /\ lines \in TweetFiles
    /\ sampled_cascade_ids \in (SUBSET (1..MaxId)) \ {{}}
    /\ line_num = 0 /\ records = <<>> /\ seen_cascades = {}
    /\ tweet_id = <<>> /\ epc = "loop"

NextExtract == NonRetweetLine \/ RetweetLine \/ extract_cascade_data

SpecExtract == InitExtract /\ [][NextExtract]_vars

\* the cascade a raw tweet belongs to: the original tweet's id
CascadeOf(t) ==
    IF is_retweet(t) THEN get_post_ID(retweet_object(t)) ELSE get_post_ID(t)

\* every record describes one tweet of a sampled cascade under that
\* tweet's own id
OwnIds ==
    \A k \in DOMAIN records :
        /\ records[k].cascade_id \in sampled_cascade_ids
        /\ records[k].user_id = AuthorOf(records[k].tweet_id)
        /\ records[k].is_root <=> records[k].tweet_id = records[k].cascade_id

\* every line read so far that belongs to a sampled cascade has its record
EveryTweetEmitted ==
    \A i \in 1..line_num :
        CascadeOf(lines[i]) \in sampled_cascade_ids =>
            \E k \in DOMAIN records :
                /\ records[k].tweet_id = get_post_ID(lines[i])
                /\ records[k].cascade_id = CascadeOf(lines[i])
                /\ records[k].is_root = ~is_retweet(lines[i])

OneRootPerCascade ==
    \A k, l \in DOMAIN records :
        /\ records[k].is_root /\ records[l].is_root
        /\ records[k].cascade_id = records[l].cascade_id
        => k = l

\* C29: for any sequence of raw tweets, every tweet of a sampled cascade
\* gets a record whose tweet_id is the tweet's own id (the retweet's id for
\* a retweet record, the original's id for a root record) and whose
\* cascade_id is the original's id, and a cascade has at most one root
\* record.  The retweet record takes its tweet_id from the variable the
\* other branch assigned.
C29_RecordsOwnIds ==
    /\ epc # "raised"
    /\ OwnIds
    /\ EveryTweetEmitted
    /\ OneRootPerCascade

\* ---------------------------------------------------------------------
\* midterm/code/data_analysis/002_generate_networks.py
\* ---------------------------------------------------------------------

NUM_NET_VERSIONS == 100
FullVersionCount == 100
MaxDirs == 2
MaxPartial == 2

UserNames == {"a", "b", "c"}

\* str(ver).zfill(3): the three digits of a version number below 1000
zfill3(ver) == <<ver \div 100, (ver \div 10) % 10, ver % 10>>

\* a version file: its name and the graph in it (vertex names, and edges as
\* pairs of vertex names)
VersionFile(ver, names, edges) ==
    [name |-> zfill3(ver), names |-> names, edges |-> edges]

\* the directory of a two-event cascade: one version
PairDir(a, b) == <<VersionFile(1, {a, b}, <<<<a, b>>>>)>>

\* the directory of a three-event cascade: N_SIMULATIONS versions, in which
\* the third user reshared the root or the second user
LongDir ==
    [v \in 1..N_SIMULATIONS |->
        VersionFile(v, {"a", "b", "c"},
                    <<<<"a", "b">>, <<IF v % 2 = 1 THEN "a" ELSE "b", "c">>>>)]

\* what an interrupted reconstruction leaves: a directory without files, or
\* with the first versions only
EmptyDir == <<>>
PartialDir == SubSeq(LongDir, 1, MaxPartial)

CascadeDirs ==
    {PairDir(p[1], p[2]) : p \in {q \in UserNames \X UserNames : q[1] # q[2]}}
    \cup {LongDir, EmptyDir, PartialDir}

CascadePath(cascade_id, ver) == [dir |-> cascade_id, name |-> zfill3(ver)]

PathExists(path) ==
    \E k \in DOMAIN cas_files[path.dir] :
        cas_files[path.dir][k].name = path.name

Read_GraphMLz(path) ==
    cas_files[path.dir][CHOOSE k \in DOMAIN cas_files[path.dir] :
                            cas_files[path.dir][k].name = path.name]

\* the paths of one network version, one per entry of cascade_numv_map
VersionPaths(numv_map, ver) ==
    [c \in DOMAIN numv_map |->
        IF numv_map[c] = FullVersionCount
        THEN CascadePath(c, ver)
        ELSE CascadePath(c, 1)]

RECURSIVE ExtendEdges(_, _)
\* all_edges after the first k files were loaded
ExtendEdges(files_to_load, k) ==
    IF k = 0 THEN <<>>
    ELSE ExtendEdges(files_to_load, k - 1)
            \o Read_GraphMLz(files_to_load[k]).edges

RECURSIVE FirstOccurrences(_, _)
FirstOccurrences(all_edges, k) ==
    IF k = 0 THEN <<>>
    ELSE LET before == FirstOccurrences(all_edges, k - 1)
         IN  IF \E i \in 1..(k - 1) : all_edges[i] = all_edges[k]
             THEN before
             ELSE Append(before, all_edges[k])

\* mutant: add_edges(all_edges), every loaded edge added
EveryEdge(all_edges) == all_edges

\* list(set(all_edges)): each pair once (here in the order of first
\* occurrence; the order of a set is arbitrary and nothing depends on it)
DistinctEdges(all_edges) == FirstOccurrences(all_edges, Len(all_edges))

edge_weight_counter(all_edges, edge) ==
    Cardinality({i \in DOMAIN all_edges : all_edges[i] = edge})

generate_network(files_to_load, netv) ==
    LET all_edges == ExtendEdges(files_to_load, Len(files_to_load))
        es == DistinctEdges(all_edges)
    IN  [version |-> netv,
         vs |-> UNION {Read_GraphMLz(files_to_load[k]).names :
                          k \in DOMAIN files_to_load},
         es |-> es,
         weight |-> [i \in DOMAIN es |-> edge_weight_counter(all_edges, es[i])]]

NetworksFrame ==
    /\ UNCHANGED <<inputs, driver, call, loop, sweep, extract>>
    /\ UNCHANGED <<cas_files, n_versions>>

generate_cascade_numv_map ==
    /\ npc = "start"
    /\ cascade_numv_map' = [c \in DOMAIN cas_files |-> Len(cas_files[c])]
    /\ npc' = "counted"
    /\ UNCHANGED <<net_ver_files_map, global_net>>
    /\ NetworksFrame

generate_net_ver_paths_map ==
    /\ npc = "counted"
    /\ net_ver_files_map' =
          [ver \in 1..n_versions |-> VersionPaths(cascade_numv_map, ver)]
    /\ npc' = "mapped"
    /\ UNCHANGED <<cascade_numv_map, global_net>>
    /\ NetworksFrame

\* one network version; the versions are independent tasks and are taken
\* in order here.  Reading a file that does not exist raises.
process_version ==
    /\ npc = "mapped" /\ Len(global_net) < NUM_NET_VERSIONS
    /\ LET netv == Len(global_net) + 1
           files_to_load == net_ver_files_map[netv]
       IN  IF \A k \in DOMAIN files_to_load : PathExists(files_to_load[k])
           THEN /\ global_net' =
                      Append(global_net, generate_network(files_to_load, netv))
                /\ UNCHANGED npc
           ELSE /\ npc' = "raised"
                /\ UNCHANGED global_net
    /\ UNCHANGED <<cascade_numv_map, net_ver_files_map>>
    /\ NetworksFrame

NetworksComplete ==
    /\ npc = "mapped" /\ Len(global_net) = NUM_NET_VERSIONS
    /\ npc' = "complete"
    /\ UNCHANGED <<cascade_numv_map, net_ver_files_map, global_net>>
    /\ NetworksFrame

InitNetworks ==
    /\ script = "none"
    /\ poten_edge_users = <<>> /\ poten_edge_tstamps = <<>>
    /\ poten_edge_fcounts = <<>>
    /\ gamma = 0 /\ alpha = 0 /\ xmin = 0
    /\ DriverIdle /\ call = NoCall /\ LoopOff /\ SweepOff /\ ExtractOff
    /\ cas_files \in UNION {[1..n -> CascadeDirs] : n \in 1..MaxDirs}
    /\ n_versions = NUM_NET_VERSIONS
    /\ cascade_numv_map = <<>> /\ net_ver_files_map = <<>>
    /\ global_net = <<>> /\ npc = "start"

NextNetworks ==
    \/ generate_cascade_numv_map
    \/ generate_net_ver_paths_map
    \/ process_version
    \/ NetworksComplete

SpecNetworks == InitNetworks /\ [][NextNetworks]_vars

\* C28: every network version 1..n gets exactly one file of every cascade
\* directory: version v of a cascade with 100 versions, v_001 of a cascade
\* with one version; and every listed path names a file that exists.
C28_OneExistingFilePerCascade ==
    npc \in {"mapped", "raised", "complete"} =>
        /\ DOMAIN net_ver_files_map = 1..n_versions
        /\ \A ver \in 1..n_versions, c \in DOMAIN cas_files :
              /\ Cardinality({k \in DOMAIN net_ver_files_map[ver] :
                                 net_ver_files_map[ver][k].dir = c}) = 1
              /\ \A k \in DOMAIN net_ver_files_map[ver] :
                    net_ver_files_map[ver][k].dir = c =>
                       /\ Len(cas_files[c]) = N_SIMULATIONS =>
                             net_ver_files_map[ver][k].name = zfill3(ver)
                       /\ Len(cas_files[c]) = 1 =>
                             net_ver_files_map[ver][k].name = zfill3(1)
                       /\ PathExists(net_ver_files_map[ver][k])

\* how often a pair of names is an edge in the files of network version netv
TimesLoaded(netv, edge) ==
    SumInts([k \in DOMAIN net_ver_files_map[netv] |->
        Cardinality({i \in DOMAIN Read_GraphMLz(net_ver_files_map[netv][k]).edges :
            Read_GraphMLz(net_ver_files_map[netv][k]).edges[i] = edge})])

EdgesLoaded(netv) ==
    SumInts([k \in DOMAIN net_ver_files_map[netv] |->
        Len(Read_GraphMLz(net_ver_files_map[netv][k]).edges)])

\* C30: a generated network has exactly one edge per distinct (parent name,
\* child name) pair of the loaded files, each edge's weight is the number of
\* times the pair occurs in those files, and the weights sum to the number
\* of edges loaded.
C30_WeightsCountEdges ==
    \A netv \in DOMAIN global_net :
        LET g == global_net[netv]
        IN  /\ \A i, j \in DOMAIN g.es : g.es[i] = g.es[j] => i = j
            /\ \A e \in UserNames \X UserNames :
                  (\E i \in DOMAIN g.es : g.es[i] = e)
                     <=> TimesLoaded(netv, e) > 0
            /\ \A i \in DOMAIN g.es : g.weight[i] = TimesLoaded(netv, g.es[i])
            /\ SumInts(g.weight) = EdgesLoaded(netv)

\* a network of two cascades that share an edge: its weight is 2, another
\* edge has weight 1, and there are fewer edges than edges loaded
C30_Witness ==
    /\ npc = "complete" /\ Len(cas_files) = 2
    /\ \E i, j \in DOMAIN global_net[1].es :
          global_net[1].weight[i] = 2 /\ global_net[1].weight[j] = 1
    /\ Len(global_net[1].es) = 2
    /\ global_net[1].version = 1

====
